---- MODULE Spec2Model ----
(***************************************************************************)
(* redis-go-to-master (src/main.go, the YAML-configured revision, lines     *)
(* 205-441): for every configured port one Elector (followMaster) polls    *)
(* the candidate nodes for the one that reports role:master and publishes  *)
(* its address; one accept loop (ServePort) hands every accepted           *)
(* connection to a proxy session that dials the published address and      *)
(* splices bytes with two pipe tasks.                                      *)
(***************************************************************************)
EXTENDS Integers, Sequences, FiniteSets, TLC

\* ------------------------------------------------------------- bounds
MaxNodes == 2
MaxPorts == 2
MaxConns == 2

\* ---------------------------------------------------- program constants
MaxAttempts == 3
Half == 65536

NodeNames == 1..MaxNodes
PortNums == 1..MaxPorts

\* ------------------------------------------------------------ addresses
\* *net.TCPAddr: the nil pointer, and the address conn.RemoteAddr() gives
\* for a connection dialled to node+":"+port.
NilAddr == [IP |-> 0, Port |-> 0]
RemoteAddr(node, port) == [IP |-> node, Port |-> port]

\* ------------------------------------------------------- probe replies
\* A reply buffer is a sequence of protocol tokens; the two markers the
\* probe searches for are tokens.
MasterMarker == "role:master"
NoAuthMarker == "-NOAUTH"
Replies ==
    { <<>>, <<"+OK">>, <<"role:slave">>, <<"+OK", "role:slave">>,
      <<"role:master">>, <<"+OK", "role:master">>,
      <<"-NOAUTH">>, <<"-NOAUTH", "-NOAUTH">>, <<"-NOAUTH", "role:master">> }

\* bytes.Contains(b, marker)
Contains(b, marker) == \E i \in DOMAIN b : b[i] = marker

\* conn.Read(b): l bytes and an error; a failed read delivers no bytes.
ReadResults == [err : BOOLEAN, reply : Replies]
Buffer(res) == IF res.err THEN <<>> ELSE res.reply

\* What the environment may answer to a probe of a node whose behaviour is
\* kind: "any" leaves it free, the other kinds fix it. A "slow" node is a
\* master whose connect takes more than one second and less than two; a
\* "silent" node accepts the connection and never sends a byte.
Kinds == {"any", "master", "slave", "noauth", "down", "readerr", "slow", "silent"}
\* d.Dial with Timeout: timeout seconds; the connect either completes within
\* the timeout or fails.
DialResults(kind, timeout) ==
    CASE kind = "any" -> BOOLEAN
      [] kind = "down" -> {FALSE}
      [] kind = "slow" -> {timeout > 1}
      [] OTHER -> {TRUE}
\* conn.Read has no deadline: it returns when the node sends its reply or
\* the connection fails, and not before.
ReadResultsOf(kind) ==
    CASE kind = "any" -> ReadResults
      [] kind \in {"master", "slow"} ->
            {r \in ReadResults : ~r.err /\ Contains(r.reply, MasterMarker)}
      [] kind = "slave" ->
            {r \in ReadResults : ~r.err /\ ~Contains(r.reply, MasterMarker)
                                        /\ ~Contains(r.reply, NoAuthMarker)}
      [] kind = "noauth" ->
            {r \in ReadResults : ~r.err /\ ~Contains(r.reply, MasterMarker)
                                        /\ Contains(r.reply, NoAuthMarker)}
      [] kind = "silent" -> {}
      [] OTHER -> {r \in ReadResults : r.err /\ r.reply = <<>>}

\* ------------------------------------------------------ uint32 counter
\* globalStats.pipesActive is a uint32, kept as two 16-bit halves <<hi, lo>>
\* so that the wrap-around of atomic.AddUint32 is computed, not assumed.
U32(n) == <<(n \div Half) % Half, n % Half>>
\* Mutant: the decrement is written ^uint32(1), which adds 2^32 - 2.
AllOnesButOne == <<Half - 1, Half - 2>>

\* ^uint32(0): adding it subtracts one, modulo 2^32.
AllOnes == <<Half - 1, Half - 1>>
AddUint32(x, d) ==
    LET lo == x[2] + d[2]
        hi == x[1] + d[1] + (lo \div Half)
    IN  <<hi % Half, lo % Half>>

\* ---------------------------------------------------------------- state
VARIABLES
    config,             \* ConfigStruct: Nodes and Ports, in configured order
    behaviour,          \* environment: how node n answers probes on port p
    alive,              \* the process runs (FALSE after log.Fatal)
    fatal,              \* what ended the process
    pcMain,             \* main: number of ports spawned so far
    ready,              \* number of ready notifications sent
    pcS,                \* ServePort position, per port
    cur,                \* connection the accept loop of a port is handling
    masterAddr,         \* RedisPort.masterAddr, per port
    mutex,              \* RedisPort.mutex, per port: writer flag and readers
    pcE,                \* followMaster position, per port
    attempt,            \* followMaster's attempt, per port
    idx,                \* getMasterAddr's position in config.Nodes, per port
    newAddr,            \* followMaster's newAddr, per port
    confirmed,          \* history: address whose node replied with the marker
                        \* in the running determination
    lastConfirmed,      \* history: the same for the last completed determination
    logChanging,        \* log: "Changing master" lines written by the last
                        \* step of the port's Elector
    logNoAuth,          \* log: "NOAUTH Authentication required" lines written
                        \* by the last step of the port's Elector, per node
    connectionsProxied, \* globalStats.connectionsProxied
    pipesActive,        \* globalStats.pipesActive
    sess                \* the accepted connections, in accept order, each with
                        \* its sockets, its proxy and pipe positions, and the
                        \* history of its snapshot and its dials

vars == <<config, behaviour, alive, fatal, pcMain, ready, pcS, cur, masterAddr,
          mutex, pcE, attempt, idx, newAddr, confirmed, lastConfirmed,
          logChanging, logNoAuth, connectionsProxied, pipesActive, sess>>

mainVars == <<pcMain, ready>>
serveVars == <<pcS, cur>>
logVars == <<logChanging, logNoAuth>>
electVars == <<pcE, attempt, idx, newAddr, confirmed, logVars>>
statVars == <<connectionsProxied, pipesActive>>

ConfigPorts == {config.Ports[i] : i \in DOMAIN config.Ports}

\* No line logged about any node.
NoLines == [n \in NodeNames |-> 0]
\* A step of the Elector of port p that logs neither of the two lines.
NoChanging(p) == logChanging' = [logChanging EXCEPT ![p] = 0]
NoNoAuth(p) == logNoAuth' = [logNoAuth EXCEPT ![p] = NoLines]

\* ----------------------------------------------------------------- Init
InitWith(cfg, beh) ==
    /\ config = cfg
    /\ behaviour = beh
    /\ alive = TRUE
    /\ fatal = "none"
    /\ pcMain = 0
    /\ ready = 0
    /\ pcS = [p \in PortNums |-> "off"]
    /\ cur = [p \in PortNums |-> 0]
    /\ masterAddr = [p \in PortNums |-> NilAddr]
    /\ mutex = [p \in PortNums |-> [w |-> FALSE, r |-> 0]]
    /\ pcE = [p \in PortNums |-> "off"]
    /\ attempt = [p \in PortNums |-> 0]
    /\ idx = [p \in PortNums |-> 0]
    /\ newAddr = [p \in PortNums |-> NilAddr]
    /\ confirmed = [p \in PortNums |-> NilAddr]
    /\ lastConfirmed = [p \in PortNums |-> NilAddr]
    /\ logChanging = [p \in PortNums |-> 0]
    /\ logNoAuth = [p \in PortNums |-> NoLines]
    /\ connectionsProxied = 0
    /\ pipesActive = U32(0)
    /\ sess = <<>>

\* A configuration with two listening ports and every node, in numeric order.
TwoPortConfig == [Nodes |-> [i \in 1..MaxNodes |-> i], Ports |-> <<1, 2>>]
\* The environment may answer every probe in any way.
AnyBehaviour == [n \in NodeNames |-> [p \in PortNums |-> "any"]]

Init == InitWith(TwoPortConfig, AnyBehaviour)

\* ----------------------------------------------------------------- main
\* go ServePort(port), for the ports in configured order.
MainSpawn ==
    /\ alive
    /\ pcMain \in 0..(Len(config.Ports) - 1)
    /\ pcMain' = pcMain + 1
    /\ pcS' = [pcS EXCEPT ![config.Ports[pcMain + 1]] = "start"]
    /\ UNCHANGED <<config, behaviour, alive, fatal, ready, cur, masterAddr, mutex,
                   electVars, lastConfirmed, statVars, sess>>

\* systemdnotify.Ready(), after the loop that spawns the ports.
MainReady ==
    /\ alive
    /\ pcMain = Len(config.Ports)
    /\ ready = 0
    /\ ready' = ready + 1
    /\ UNCHANGED <<config, behaviour, alive, fatal, pcMain, pcS, cur, masterAddr,
                   mutex, electVars, lastConfirmed, statVars, sess>>

\* ------------------------------------------------------------ ServePort
\* log.Fatalf: the whole process ends.
Fatal(why) ==
    /\ alive' = FALSE
    /\ fatal' = why

\* net.ResolveTCPAddr, then go followMaster(&p).
ServeStart(p, ok) ==
    /\ alive
    /\ pcS[p] = "start"
    /\ IF ok
       THEN /\ pcS' = [pcS EXCEPT ![p] = "listen"]
            /\ pcE' = [pcE EXCEPT ![p] = "start"]
            /\ UNCHANGED <<alive, fatal>>
       ELSE /\ Fatal("resolve")
            /\ UNCHANGED <<pcS, pcE>>
    /\ UNCHANGED <<config, behaviour, mainVars, cur, masterAddr, mutex, attempt, idx,
                   newAddr, confirmed, logVars, lastConfirmed, statVars, sess>>

\* net.ListenTCP: the bind of the port.
ServeListen(p, ok) ==
    /\ alive
    /\ pcS[p] = "listen"
    /\ IF ok
       THEN /\ pcS' = [pcS EXCEPT ![p] = "accept"]
            /\ UNCHANGED <<alive, fatal>>
       ELSE /\ Fatal("bind")
            /\ UNCHANGED pcS
    /\ UNCHANGED <<config, behaviour, mainVars, cur, masterAddr, mutex, electVars,
                   lastConfirmed, statVars, sess>>

\* --------------------------------------------------------- followMaster
\* Mutant: the candidates are walked from the end of the list.
NodeReversed(p) == config.Nodes[Len(config.Nodes) + 1 - idx[p]]

\* The node getMasterAddr's range loop is at.
Node(p) == config.Nodes[idx[p]]

\* Top of the for loop: newAddr is nil, attempt is 1, and getMasterAddr
\* starts with the first node.
ElectorBegin(p) ==
    /\ alive
    /\ pcE[p] \in {"start", "sleep"}
    /\ pcE' = [pcE EXCEPT ![p] = "dial"]
    /\ attempt' = [attempt EXCEPT ![p] = 1]
    /\ idx' = [idx EXCEPT ![p] = 1]
    /\ newAddr' = [newAddr EXCEPT ![p] = NilAddr]
    /\ confirmed' = [confirmed EXCEPT ![p] = NilAddr]
    /\ NoChanging(p) /\ NoNoAuth(p)
    /\ UNCHANGED <<config, behaviour, alive, fatal, mainVars, serveVars, masterAddr,
                   mutex, lastConfirmed, statVars, sess>>

\* Mutant: the line is logged on every poll that finds a master.
AddrDiffersAlways(old, new) == TRUE

\* rp.masterAddr == nil || string(rp.masterAddr.IP) != string(newAddr.IP) ||
\* rp.masterAddr.Port != newAddr.Port
AddrDiffers(old, new) == old = NilAddr \/ old.IP # new.IP \/ old.Port # new.Port

\* The "Changing master" lines followMaster logs for the result addr: none
\* for nil (which logs "No masters found"), one for an address that differs
\* from the published one.
ChangingLines(p, addr) ==
    IF addr # NilAddr /\ AddrDiffers(masterAddr[p], addr) THEN 1 ELSE 0

\* Mutant: the attempt loop goes on although a master was found.
LoopGoesOnAlways(addr, next) == next <= MaxAttempts

\* The condition of followMaster's attempt loop, with attempt already
\* incremented to next.
LoopGoesOn(addr, next) == addr = NilAddr /\ next <= MaxAttempts

\* getMasterAddr returns addr to followMaster's inner loop: attempt++, and
\* the loop goes on only while newAddr is nil and attempt <= 3. When the loop
\* ends its variable attempt, like getMasterAddr's position, is out of scope,
\* and the result is logged.
CycleReturns(p, addr) ==
    /\ newAddr' = [newAddr EXCEPT ![p] = addr]
    /\ IF LoopGoesOn(addr, attempt[p] + 1)
       THEN /\ pcE' = [pcE EXCEPT ![p] = "dial"]
            /\ attempt' = [attempt EXCEPT ![p] = attempt[p] + 1]
            /\ idx' = [idx EXCEPT ![p] = 1]
            /\ NoChanging(p)
       ELSE /\ pcE' = [pcE EXCEPT ![p] = "lock"]
            /\ attempt' = [attempt EXCEPT ![p] = 0]
            /\ idx' = [idx EXCEPT ![p] = 0]
            /\ logChanging' = [logChanging EXCEPT ![p] = ChangingLines(p, addr)]

\* The range loop of getMasterAddr moves to the next node, or ends and
\* returns nil.
NextCandidate(p) ==
    IF idx[p] < Len(config.Nodes)
    THEN /\ idx' = [idx EXCEPT ![p] = idx[p] + 1]
         /\ pcE' = [pcE EXCEPT ![p] = "dial"]
         /\ UNCHANGED <<attempt, newAddr>>
         /\ NoChanging(p)
    ELSE CycleReturns(p, NilAddr)

\* net.Dialer{Timeout: time.Duration(timeout) * time.Second}, where timeout
\* is followMaster's attempt: the timeout in seconds.
ProbeTimeout(p) == attempt[p]

\* d.Dial("tcp", node+":"+port) with the cycle's timeout.
ProbeDial(p, ok) ==
    /\ alive
    /\ pcE[p] = "dial"
    /\ ok \in DialResults(behaviour[Node(p)][p], ProbeTimeout(p))
    /\ IF ok
       THEN /\ pcE' = [pcE EXCEPT ![p] = "read"]
            /\ UNCHANGED <<attempt, idx, newAddr>>
            /\ NoChanging(p)
       ELSE NextCandidate(p)
    /\ NoNoAuth(p)
    /\ UNCHANGED <<config, behaviour, alive, fatal, mainVars, serveVars, masterAddr,
                   mutex, confirmed, lastConfirmed, statVars, sess>>

\* Mutant: the read error ends the process (log.Fatal, as in the first
\* revision of getMasterAddr).
ReadErrorIsFatalV1 == TRUE

\* A read error in the probe is logged with log.Printf (line 428): it does
\* not end the process.
ReadErrorIsFatal == FALSE

\* Mutant: any role line passes for the master's.
IsMasterAnyRole(b) == Contains(b, MasterMarker) \/ Contains(b, "role:slave")

\* bytes.Contains(b[:l], []byte("role:master")): is this node the master?
IsMaster(b) == Contains(b, MasterMarker)

\* Mutant: the warning is logged for every reply without the master marker.
IsNoAuthAnyReply(b) == TRUE

\* bytes.Contains(b[:l], []byte("-NOAUTH"))
IsNoAuth(b) == Contains(b, NoAuthMarker)

\* Mutant: a master reply is remembered and the range loop goes on with the
\* candidates listed after it.
ClassifyProbesOn(p, b) ==
    /\ IF idx[p] < Len(config.Nodes)
       THEN /\ idx' = [idx EXCEPT ![p] = idx[p] + 1]
            /\ pcE' = [pcE EXCEPT ![p] = "dial"]
            /\ newAddr' = [newAddr EXCEPT ![p] =
                              IF IsMaster(b) THEN RemoteAddr(Node(p), p) ELSE @]
            /\ UNCHANGED attempt
            /\ NoChanging(p)
       ELSE CycleReturns(p, IF IsMaster(b) THEN RemoteAddr(Node(p), p)
                                           ELSE newAddr[p])
    /\ NoNoAuth(p)
    /\ confirmed' = [confirmed EXCEPT ![p] =
                        IF Contains(b, MasterMarker) THEN RemoteAddr(Node(p), p)
                                                     ELSE confirmed[p]]

\* The two marker tests on the l bytes read: return the node's address, or
\* log the NOAUTH warning if the reply holds that marker and go on with the
\* next node.
Classify(p, b) ==
    /\ IF IsMaster(b)
       THEN /\ CycleReturns(p, RemoteAddr(Node(p), p))
            /\ NoNoAuth(p)
       ELSE /\ NextCandidate(p)
            /\ logNoAuth' = [logNoAuth EXCEPT ![p] =
                    [NoLines EXCEPT ![Node(p)] = IF IsNoAuth(b) THEN 1 ELSE 0]]
    /\ confirmed' = [confirmed EXCEPT ![p] =
                        IF Contains(b, MasterMarker) THEN RemoteAddr(Node(p), p)
                                                     ELSE confirmed[p]]

\* conn.Read(b) returns: with an error, or with the reply, which is
\* classified.
ProbeRead(p, res) ==
    /\ alive
    /\ pcE[p] = "read"
    /\ res \in ReadResultsOf(behaviour[Node(p)][p])
    /\ IF res.err
       THEN /\ pcE' = [pcE EXCEPT ![p] = "readerr"]
            /\ UNCHANGED <<attempt, idx, newAddr, confirmed>>
            /\ NoChanging(p) /\ NoNoAuth(p)
       ELSE Classify(p, Buffer(res))
    /\ UNCHANGED <<config, behaviour, alive, fatal, mainVars, serveVars, masterAddr,
                   mutex, lastConfirmed, statVars, sess>>

\* if err != nil { log.Printf(...) }, and the marker tests on the zero bytes
\* the failed read delivered.
ProbeReadError(p) ==
    /\ alive
    /\ pcE[p] = "readerr"
    /\ IF ReadErrorIsFatal
       THEN /\ Fatal("read")
            /\ UNCHANGED electVars
       ELSE /\ Classify(p, Buffer([err |-> TRUE, reply |-> <<>>]))
            /\ UNCHANGED <<alive, fatal>>
    /\ UNCHANGED <<config, behaviour, mainVars, serveVars, masterAddr, mutex,
                   lastConfirmed, statVars, sess>>

\* Mutant: the writer does not wait for the readers.
CanLockOverReaders(p) == ~mutex[p].w

\* rp.mutex.Lock() returns only when no reader and no writer holds the lock.
CanLock(p) == ~mutex[p].w /\ mutex[p].r = 0

\* rp.mutex.Lock(): waits until no reader and no writer holds the lock.
ElectorLock(p) ==
    /\ alive
    /\ pcE[p] = "lock"
    /\ CanLock(p)
    /\ mutex' = [mutex EXCEPT ![p].w = TRUE]
    /\ pcE' = [pcE EXCEPT ![p] = "assign"]
    /\ NoChanging(p) /\ NoNoAuth(p)
    /\ UNCHANGED <<config, behaviour, alive, fatal, mainVars, serveVars, masterAddr,
                   attempt, idx, newAddr, confirmed, lastConfirmed, statVars, sess>>

\* Mutant: a determination that found no master keeps the old address.
PublishedKeepOld(p) == IF newAddr[p] = NilAddr THEN masterAddr[p] ELSE newAddr[p]

\* The value followMaster publishes.
Published(p) == newAddr[p]

\* rp.masterAddr = newAddr
ElectorAssign(p) ==
    /\ alive
    /\ pcE[p] = "assign"
    /\ masterAddr' = [masterAddr EXCEPT ![p] = Published(p)]
    /\ lastConfirmed' = [lastConfirmed EXCEPT ![p] = confirmed[p]]
    /\ pcE' = [pcE EXCEPT ![p] = "unlock"]
    /\ NoChanging(p) /\ NoNoAuth(p)
    /\ UNCHANGED <<config, behaviour, alive, fatal, mainVars, serveVars, mutex,
                   attempt, idx, newAddr, confirmed, statVars, sess>>

\* rp.mutex.Unlock(), then time.Sleep(1 * time.Second).
ElectorUnlock(p) ==
    /\ alive
    /\ pcE[p] = "unlock"
    /\ mutex' = [mutex EXCEPT ![p].w = FALSE]
    /\ pcE' = [pcE EXCEPT ![p] = "sleep"]
    /\ NoChanging(p) /\ NoNoAuth(p)
    /\ UNCHANGED <<config, behaviour, alive, fatal, mainVars, serveVars, masterAddr,
                   attempt, idx, newAddr, confirmed, lastConfirmed, statVars, sess>>

Startup ==
    \/ MainSpawn
    \/ MainReady
    \/ \E p \in ConfigPorts, ok \in BOOLEAN : ServeStart(p, ok)
    \/ \E p \in ConfigPorts, ok \in BOOLEAN : ServeListen(p, ok)

Elector ==
    \/ \E p \in ConfigPorts : ElectorBegin(p)
    \/ \E p \in ConfigPorts, ok \in BOOLEAN : ProbeDial(p, ok)
    \/ \E p \in ConfigPorts, res \in ReadResults : ProbeRead(p, res)
    \/ \E p \in ConfigPorts : ProbeReadError(p)
    \/ \E p \in ConfigPorts : ElectorLock(p)
    \/ \E p \in ConfigPorts : ElectorAssign(p)
    \/ \E p \in ConfigPorts : ElectorUnlock(p)

NextElector == Startup \/ Elector

\* The Electors of two ports in an arbitrary environment; no client connects.
SpecElector == Init /\ [][NextElector]_vars

\* --------------------------------------------------- ServePort: accept loop
\* A connection as listener.AcceptTCP() returns it.
NewConn(p) ==
    [port |-> p, st |-> "accepted", snap |-> NilAddr, target |-> NilAddr,
     dialed |-> NilAddr, local |-> "open", remote |-> "none",
     pipe |-> <<"none", "none">>, dials |-> 0]

\* listener.AcceptTCP() returns a client connection. (An accept error is
\* logged and the loop continues: a step that changes nothing.)
ServeAccept(p) ==
    /\ alive
    /\ pcS[p] = "accept"
    /\ Len(sess) < MaxConns
    /\ sess' = Append(sess, NewConn(p))
    /\ cur' = [cur EXCEPT ![p] = Len(sess) + 1]
    /\ pcS' = [pcS EXCEPT ![p] = "rlock"]
    /\ UNCHANGED <<config, behaviour, alive, fatal, mainVars, masterAddr, mutex,
                   electVars, lastConfirmed, statVars>>

\* p.mutex.RLock(): waits while the writer holds the lock.
ServeRLock(p) ==
    /\ alive
    /\ pcS[p] = "rlock"
    /\ ~mutex[p].w
    /\ mutex' = [mutex EXCEPT ![p].r = mutex[p].r + 1]
    /\ pcS' = [pcS EXCEPT ![p] = "test"]
    /\ UNCHANGED <<config, behaviour, alive, fatal, mainVars, cur, masterAddr,
                   electVars, lastConfirmed, statVars, sess>>

\* Mutant: the nil test is missing.
HasMasterAlways(p) == TRUE

\* p.masterAddr != nil
HasMaster(p) == masterAddr[p] # NilAddr

\* Mutant: every accepted connection is counted.
ProxiedAlways(p) == connectionsProxied + 1

\* globalStats.connectionsProxied after the test: incremented in the branch
\* that proxies the connection.
Proxied(p) == IF HasMaster(p) THEN connectionsProxied + 1 ELSE connectionsProxied

\* if p.masterAddr != nil { atomic.AddUint64(&connectionsProxied, 1) ...
\* } else { conn.Close() }
ServeTest(p) ==
    /\ alive
    /\ pcS[p] = "test"
    /\ connectionsProxied' = Proxied(p)
    /\ IF HasMaster(p)
       THEN /\ sess' = [sess EXCEPT ![cur[p]].st = "counted",
                                    ![cur[p]].snap = masterAddr[p]]
            /\ pcS' = [pcS EXCEPT ![p] = "go"]
       ELSE /\ sess' = [sess EXCEPT ![cur[p]].st = "rejected",
                                    ![cur[p]].local = "closed"]
            /\ pcS' = [pcS EXCEPT ![p] = "runlock"]
    /\ UNCHANGED <<config, behaviour, alive, fatal, mainVars, cur, masterAddr, mutex,
                   electVars, lastConfirmed, pipesActive>>

\* Mutant: the accept loops share one RedisPort, that of the first port.
ProxyArgOfFirstPort(p) == masterAddr[config.Ports[1]]

\* The argument p.masterAddr of go proxy: the field of this port's own
\* RedisPort, a variable local to its ServePort.
ProxyArg(p) == masterAddr[p]

\* go proxy(conn, p.masterAddr): the argument is read when the go statement
\* runs.
ServeGo(p) ==
    /\ alive
    /\ pcS[p] = "go"
    /\ sess' = [sess EXCEPT ![cur[p]].st = "dispatched",
                            ![cur[p]].target = ProxyArg(p)]
    /\ pcS' = [pcS EXCEPT ![p] = "runlock"]
    /\ UNCHANGED <<config, behaviour, alive, fatal, mainVars, cur, masterAddr, mutex,
                   electVars, lastConfirmed, statVars>>

\* Mutant: proxy is called, not started with go: the statement completes
\* when proxy returns.
HandedWhenProxyReturns(s) == s.st \in {"rejected", "failed", "piping"}

\* The statement that handled the connection has completed: conn.Close()
\* has returned, or the go statement has, which does not wait for the proxy
\* it starts.
Handed(s) == s.st \in {"rejected", "dispatched", "failed", "piping"}

\* Mutant: the read lock is not released.
ReleasedNever(m) == m

\* p.mutex.RUnlock(): one reader less.
Released(m) == [m EXCEPT !.r = m.r - 1]

\* p.mutex.RUnlock(), and back to AcceptTCP.
ServeRUnlock(p) ==
    /\ alive
    /\ pcS[p] = "runlock"
    /\ Handed(sess[cur[p]])
    /\ mutex' = [mutex EXCEPT ![p] = Released(mutex[p])]
    /\ pcS' = [pcS EXCEPT ![p] = "accept"]
    /\ cur' = [cur EXCEPT ![p] = 0]
    /\ UNCHANGED <<config, behaviour, alive, fatal, mainVars, masterAddr,
                   electVars, lastConfirmed, statVars, sess>>

\* ---------------------------------------------------------------- proxy
\* Mutant: proxy reads the port's master address when it dials.
DialAddrLive(c) == masterAddr[sess[c].port]

\* remoteAddr.String(): the address proxy dials is the one it was handed.
DialAddr(c) == sess[c].target

\* Mutant: the failed dial returns without local.Close().
FailedDialLeavesOpen(s, addr) ==
    [s EXCEPT !.st = "failed", !.dialed = addr, !.dials = s.dials + 1]

\* The dial failed: log.Println(err); local.Close(); return.
FailedDial(s, addr) ==
    [s EXCEPT !.st = "failed", !.local = "closed", !.dialed = addr,
              !.dials = s.dials + 1]

\* The dial succeeded: the keep-alive settings on both sockets, then
\* go pipe(local, remote) and go pipe(remote, local).
EstablishedDial(s, addr) ==
    [s EXCEPT !.st = "piping", !.remote = "open", !.dialed = addr,
              !.pipe = <<"ready", "ready">>, !.dials = s.dials + 1]

\* d.Dial("tcp", remoteAddr.String()) returns; a nil address is no address
\* that can be dialled.
ProxyDial(c, ok) ==
    /\ alive
    /\ sess[c].st = "dispatched"
    /\ DialAddr(c) = NilAddr => ~ok
    /\ sess' = [sess EXCEPT ![c] = IF ok THEN EstablishedDial(sess[c], DialAddr(c))
                                         ELSE FailedDial(sess[c], DialAddr(c))]
    /\ UNCHANGED <<config, behaviour, alive, fatal, mainVars, serveVars, masterAddr,
                   mutex, electVars, lastConfirmed, statVars>>

\* ----------------------------------------------------------------- pipe
\* Pipe 1 is pipe(local, remote), pipe 2 is pipe(remote, local).
Dirs == {1, 2}
SrcOf(d) == IF d = 1 THEN "local" ELSE "remote"
DstOf(d) == IF d = 1 THEN "remote" ELSE "local"
CloseSock(s, name) ==
    IF name = "local" THEN [s EXCEPT !.local = "closed"]
                      ELSE [s EXCEPT !.remote = "closed"]
SetPipe(s, d, v) == [s EXCEPT !.pipe[d] = v]

\* atomic.AddUint32(&globalStats.pipesActive, 1)
PipeStart(c, d) ==
    /\ alive
    /\ sess[c].pipe[d] = "ready"
    /\ pipesActive' = AddUint32(pipesActive, U32(1))
    /\ sess' = [sess EXCEPT ![c] = SetPipe(sess[c], d, "copy")]
    /\ UNCHANGED <<config, behaviour, alive, fatal, mainVars, serveVars, masterAddr,
                   mutex, electVars, lastConfirmed, connectionsProxied>>

\* Mutant: pipe does not close its sink.
CopyReturnedKeepsW(s, d) == SetPipe(s, d, "closeR")

\* io.Copy has returned: the deferred w.Close() runs (the last defer first).
CopyReturned(s, d) == SetPipe(CloseSock(s, DstOf(d)), d, "closeR")

\* The source of pipe d has been closed in this process: a Read on it,
\* blocked or not yet called, fails at once. (The paired pipe closes this
\* pipe's source before it closes this pipe's sink.)
SourceClosed(s, d) ==
    IF SrcOf(d) = "local" THEN s.local = "closed" ELSE s.remote = "closed"

\* io.Copy returns because of the peer: the source's end of stream, or a
\* read or write error on the network.
PipeEndPeer(c, d) ==
    /\ alive
    /\ sess[c].pipe[d] = "copy"
    /\ ~SourceClosed(sess[c], d)
    /\ sess' = [sess EXCEPT ![c] = CopyReturned(sess[c], d)]
    /\ UNCHANGED <<config, behaviour, alive, fatal, mainVars, serveVars, masterAddr,
                   mutex, electVars, lastConfirmed, statVars>>

\* io.Copy returns because the paired pipe has closed this pipe's source.
PipeEndClosed(c, d) ==
    /\ alive
    /\ sess[c].pipe[d] = "copy"
    /\ SourceClosed(sess[c], d)
    /\ sess' = [sess EXCEPT ![c] = CopyReturned(sess[c], d)]
    /\ UNCHANGED <<config, behaviour, alive, fatal, mainVars, serveVars, masterAddr,
                   mutex, electVars, lastConfirmed, statVars>>

\* Mutant: pipe does not close its source (the first revision of pipe).
ClosedByRNothing(s, d) == s

\* The sockets pipe's defer r.Close() closes.
ClosedByR(s, d) == CloseSock(s, SrcOf(d))

\* defer r.Close()
PipeCloseR(c, d) ==
    /\ alive
    /\ sess[c].pipe[d] = "closeR"
    /\ sess' = [sess EXCEPT ![c] = SetPipe(ClosedByR(sess[c], d), d, "dec")]
    /\ UNCHANGED <<config, behaviour, alive, fatal, mainVars, serveVars, masterAddr,
                   mutex, electVars, lastConfirmed, statVars>>

\* defer atomic.AddUint32(&globalStats.pipesActive, ^uint32(0))
PipeDec(c, d) ==
    /\ alive
    /\ sess[c].pipe[d] = "dec"
    /\ pipesActive' = AddUint32(pipesActive, AllOnes)
    /\ sess' = [sess EXCEPT ![c] = SetPipe(sess[c], d, "done")]
    /\ UNCHANGED <<config, behaviour, alive, fatal, mainVars, serveVars, masterAddr,
                   mutex, electVars, lastConfirmed, connectionsProxied>>

Forwarder ==
    \/ \E p \in ConfigPorts : ServeAccept(p)
    \/ \E p \in ConfigPorts : ServeRLock(p)
    \/ \E p \in ConfigPorts : ServeTest(p)
    \/ \E p \in ConfigPorts : ServeGo(p)
    \/ \E p \in ConfigPorts : ServeRUnlock(p)

Session ==
    \/ \E c \in DOMAIN sess, ok \in BOOLEAN : ProxyDial(c, ok)
    \/ \E c \in DOMAIN sess, d \in Dirs : PipeStart(c, d)
    \/ \E c \in DOMAIN sess, d \in Dirs : PipeEndPeer(c, d)
    \/ \E c \in DOMAIN sess, d \in Dirs : PipeEndClosed(c, d)
    \/ \E c \in DOMAIN sess, d \in Dirs : PipeCloseR(c, d)
    \/ \E c \in DOMAIN sess, d \in Dirs : PipeDec(c, d)

Next == Startup \/ Elector \/ Forwarder \/ Session

\* The configuration of the README: one listening port, every node.
OnePortConfig == [Nodes |-> [i \in 1..MaxNodes |-> i], Ports |-> <<1>>]
InitOnePort == InitWith(OnePortConfig, AnyBehaviour)

\* The whole program on one port, in an arbitrary environment.
Spec == InitOnePort /\ [][Next]_vars

\* Two listening ports whose masters are different candidates: the candidate
\* named p is the master behind port p and refuses connections on the other
\* port.
OwnMasters ==
    [n \in NodeNames |-> [p \in PortNums |-> IF n = p THEN "master" ELSE "down"]]
InitTwoPorts == InitWith(TwoPortConfig, OwnMasters)

\* The whole program, clients included, started either on one port in an
\* arbitrary environment or on two ports behind which the masters differ.
InitPorts == InitOnePort \/ InitTwoPorts
SpecPorts == InitPorts /\ [][Next]_vars

\* Every ordered list of distinct candidates, one listening port, and every
\* assignment of a fixed behaviour to the candidates.
NodeLists ==
    {q \in UNION {[1..n -> NodeNames] : n \in 1..MaxNodes} :
        \A i, j \in DOMAIN q : i # j => q[i] # q[j]}
StableKinds == Kinds \ {"any"}
StableBehaviour(p, k) ==
    [n \in NodeNames |-> [q \in PortNums |-> IF q = p THEN k[n] ELSE "down"]]
InitStable ==
    \E p \in PortNums, nodes \in NodeLists, k \in [NodeNames -> StableKinds] :
        InitWith([Nodes |-> nodes, Ports |-> <<p>>], StableBehaviour(p, k))

\* The Electors of a configuration whose candidates answer every probe the
\* same way; no client connects.
SpecStable == InitStable /\ [][NextElector]_vars

\* The connection to the candidate named 1 fails at the read of every probe;
\* the other candidates are masters.
FailoverBehaviour ==
    [n \in NodeNames |-> [p \in PortNums |-> IF n = 1 THEN "readerr" ELSE "master"]]
InitFailover == InitWith(OnePortConfig, FailoverBehaviour)

\* The steps of pipe d of connection c that depend on this process alone:
\* its start, the return of io.Copy once its source is closed, and its
\* deferred calls.
PipeProgress(c, d) ==
    /\ c \in DOMAIN sess
    /\ \/ PipeStart(c, d)
       \/ PipeEndClosed(c, d)
       \/ PipeCloseR(c, d)
       \/ PipeDec(c, d)

\* The scheduler runs every pipe goroutine that can take a step. When a
\* client or the master sends its end of stream is up to them.
FairPipes == \A c \in 1..MaxConns, d \in Dirs : WF_vars(PipeProgress(c, d))

\* The whole program on one port, under that scheduling.
SpecPipes == InitFailover /\ [][Next]_vars /\ FairPipes

\* The steps of the Elector of port p.
ElectorStep(p) ==
    \/ ElectorBegin(p)
    \/ \E ok \in BOOLEAN : ProbeDial(p, ok)
    \/ \E res \in ReadResults : ProbeRead(p, res)
    \/ ProbeReadError(p)
    \/ ElectorLock(p)
    \/ ElectorAssign(p)
    \/ ElectorUnlock(p)

\* The scheduler runs every goroutine that can take a step: main, each
\* ServePort up to its accept loop, and each Elector. A step of the Elector is
\* enabled when the call it waits in can return: the sleep and the connect
\* are bounded by their durations, the read returns only when the node
\* answers or the connection fails.
FairElector ==
    /\ WF_vars(MainSpawn)
    /\ WF_vars(MainReady)
    /\ \A p \in PortNums : WF_vars(\E ok \in BOOLEAN : ServeStart(p, ok))
    /\ \A p \in PortNums : WF_vars(\E ok \in BOOLEAN : ServeListen(p, ok))
    /\ \A p \in PortNums : WF_vars(ElectorStep(p))

\* SpecStable under that scheduling.
SpecStableFair == InitStable /\ [][NextElector]_vars /\ FairElector

\* ============================================================== claims
\* followMaster has published the result of a determination and has not
\* begun the next one.
Completed(p) == pcE[p] \in {"unlock", "sleep"}

\* The connection passed the nil test and was counted.
Dispatched(s) == s.st \in {"counted", "dispatched", "failed", "piping"}
\* proxy runs, or has run, for the connection.
Started(s) == s.st \in {"dispatched", "failed", "piping"}

\* Positions in config.Nodes of the candidates that answer with the marker.
MasterIdx(p) == {i \in DOMAIN config.Nodes : behaviour[config.Nodes[i]][p] = "master"}
FirstMaster(p) ==
    config.Nodes[CHOOSE i \in MasterIdx(p) : \A j \in MasterIdx(p) : i <= j]

\* C1: with stable probe replies, a completed determination in which some
\* candidate replies with the master marker has published the resolved
\* address of the first such candidate in configuration order.
C1_FirstListedMaster ==
    \A p \in ConfigPorts :
        (Completed(p) /\ MasterIdx(p) # {})
            => masterAddr[p] = RemoteAddr(FirstMaster(p), p)

\* Two candidates reply with the marker, the one listed first is not the
\* node with the smallest name, and it is the one published.
C1_Witness ==
    \E p \in ConfigPorts :
        /\ pcE[p] = "sleep"
        /\ Cardinality(MasterIdx(p)) = 2
        /\ config.Nodes[1] = 2
        /\ masterAddr[p] = RemoteAddr(2, p)

\* A connection that met an empty master address at its snapshot.
MetNoMaster(s) == s.st # "accepted" /\ s.snap = NilAddr
ClosedUndialled(s) ==
    /\ s.st = "rejected"
    /\ s.local = "closed" /\ s.remote = "none"
    /\ s.dials = 0 /\ s.dialed = NilAddr
    /\ s.pipe = <<"none", "none">>

C2_Inv ==
    /\ \A p \in ConfigPorts :
          (Completed(p) /\ confirmed[p] = NilAddr) => masterAddr[p] = NilAddr
    /\ \A c \in DOMAIN sess : MetNoMaster(sess[c]) => ClosedUndialled(sess[c])
C2_Act ==
    \A p \in ConfigPorts :
        (pcE[p] # "lock" /\ pcE'[p] = "lock" /\ newAddr'[p] = NilAddr)
            => attempt[p] = MaxAttempts

\* C2: a determination in which no candidate replied with the master marker
\* ends, after its third attempt, with the published address empty, and a
\* connection that meets the empty address is closed and never dialled.
C2_SearchingAfterThreeAttempts == [](C2_Inv) /\ [][C2_Act]_vars

\* The Elector has cleared an address it had published (an earlier
\* connection was dispatched to it), and a later connection was turned away.
C2_Witness ==
    \E p \in ConfigPorts, c1, c2 \in DOMAIN sess :
        /\ pcE[p] = "sleep" /\ masterAddr[p] = NilAddr /\ confirmed[p] = NilAddr
        /\ c1 < c2
        /\ sess[c1].port = p /\ sess[c1].snap # NilAddr
        /\ sess[c2].port = p /\ sess[c2].st = "rejected"

C3_Act ==
    \A p \in ConfigPorts :
        (pcS[p] = "test" /\ pcS'[p] # "test" /\ masterAddr[p] = NilAddr)
            => /\ ClosedUndialled(sess'[cur[p]])
               /\ connectionsProxied' = connectionsProxied
               /\ pipesActive' = pipesActive
C3_Inv ==
    \A c \in DOMAIN sess : sess[c].st = "rejected" => ClosedUndialled(sess[c])

\* C3: the test of a connection against an empty master address closes the
\* connection and changes neither counter; the connection is never dialled
\* and no pipe is ever started for it.
C3_RejectedWhileSearching == [](C3_Inv) /\ [][C3_Act]_vars

\* A connection was turned away while pipes of an earlier session run.
C3_Witness ==
    \E c1, c2 \in DOMAIN sess :
        /\ sess[c2].st = "rejected"
        /\ sess[c1].pipe[1] = "copy"
        /\ connectionsProxied = 1
        /\ pipesActive = U32(1)

C4_Inv ==
    /\ connectionsProxied = Cardinality({c \in DOMAIN sess : Dispatched(sess[c])})
    /\ \A c \in DOMAIN sess :
          sess[c].st # "accepted" => (Dispatched(sess[c]) <=> sess[c].snap # NilAddr)
C4_Act ==
    /\ connectionsProxied' >= connectionsProxied
    /\ connectionsProxied' # connectionsProxied
          => \E p \in ConfigPorts : pcS[p] = "test" /\ pcS'[p] = "go"

\* C4: connectionsProxied is the number of connections that passed the nil
\* test, whatever became of their dial and their pipes; only that test
\* changes it, and it never decreases.
C4_ProxiedCountsDispatched == [](C4_Inv) /\ [][C4_Act]_vars

\* Two connections counted: the dial of one failed, the pipes of the other
\* have ended.
C4_Witness ==
    \E c1, c2 \in DOMAIN sess :
        /\ sess[c1].st = "failed"
        /\ sess[c2].pipe = <<"done", "done">>
        /\ connectionsProxied = 2

Running(s) == Cardinality({d \in Dirs : s.pipe[d] \in {"copy", "closeR", "dec"}})
RECURSIVE RunningExcept(_, _)
RunningExcept(c, n) ==
    IF n = 0 THEN 0
    ELSE (IF n = c THEN 0 ELSE Running(sess[n])) + RunningExcept(c, n - 1)

C5_Inv ==
    \A c \in DOMAIN sess :
        /\ \A d \in Dirs :
              sess[c].pipe[d] \in {"dec", "done"}
                  => sess[c].local = "closed" /\ sess[c].remote = "closed"
        /\ sess[c].pipe = <<"done", "done">>
              => pipesActive = U32(RunningExcept(c, Len(sess)))
C5_Act ==
    \A c \in DOMAIN sess, d \in Dirs :
        /\ (sess[c].pipe[d] = "ready" /\ sess'[c].pipe[d] # "ready")
              => pipesActive' = AddUint32(pipesActive, U32(1))
        /\ (sess[c].pipe[d] # "done" /\ sess'[c].pipe[d] = "done")
              => /\ sess[c].pipe[d] = "dec"
                 /\ sess[c].local = "closed" /\ sess[c].remote = "closed"
                 /\ AddUint32(pipesActive', U32(1)) = pipesActive

\* C5: a pipe whose copy has ended and whose deferred closes have run leaves
\* both sockets of its session closed; its decrement of pipesActive comes
\* after them and undoes exactly its increment, so that with both pipes of a
\* session done the counter counts the running pipes of the other sessions.
C5_PipesReleaseEverything == [](C5_Inv) /\ [][C5_Act]_vars

\* One session has ended while a pipe of another still copies.
C5_Witness ==
    \E c1, c2 \in DOMAIN sess :
        /\ sess[c1].pipe = <<"done", "done">>
        /\ sess[c2].pipe[2] = "copy"
        /\ pipesActive # U32(0)

\* C6: the published address of a port is empty, or it is the address of a
\* configured candidate, on that port, that replied with the master marker
\* in the port's last completed determination.
C6_PublishedWasConfirmed ==
    \A p \in PortNums :
        \/ masterAddr[p] = NilAddr
        \/ /\ masterAddr[p] = lastConfirmed[p]
           /\ \E i \in DOMAIN config.Nodes : masterAddr[p] = RemoteAddr(config.Nodes[i], p)

\* Both ports have a published master, found on different candidates, one of
\* them after the first candidate was passed over.
C6_Witness ==
    /\ masterAddr[1] = RemoteAddr(2, 1)
    /\ masterAddr[2] = RemoteAddr(1, 2)
    /\ pcE[1] = "sleep"

\* The published masters of the configured ports other than p.
OtherMasters(p) == {masterAddr[q] : q \in ConfigPorts \ {p}}

C7_Inv ==
    /\ \A c \in DOMAIN sess :
          Started(sess[c])
              => /\ sess[c].target = sess[c].snap
                 /\ sess[c].target # NilAddr
                 /\ sess[c].target.Port = sess[c].port
                 /\ sess[c].target \notin OtherMasters(sess[c].port)
                 /\ sess[c].dials > 0 => sess[c].dialed = sess[c].snap
    /\ \A p \in ConfigPorts :
          pcS[p] \in {"test", "go", "runlock"} => mutex[p].r = 1 /\ ~mutex[p].w
C7_Act ==
    \A p \in ConfigPorts :
        /\ (pcS[p] = "test" /\ pcS'[p] = "go") => sess'[cur[p]].snap = masterAddr[p]
        /\ (pcS[p] = "go" /\ pcS'[p] # "go") => sess'[cur[p]].target = masterAddr[p]

\* C7: the address tested and the address handed to proxy are read while the
\* accept loop holds the read lock, which the Elector's write cannot overlap:
\* every session dials the non-empty address its port published at its
\* snapshot, an address on its own port and never the published master of
\* another port.
C7_DialsTheSnapshot == [](C7_Inv) /\ [][C7_Act]_vars

\* Two sessions run at once, one accepted on each port, each on the address
\* its own port published at its snapshot, while the other port publishes a
\* different master.
C7_Witness ==
    \E c, e \in DOMAIN sess :
        /\ sess[c].port = 1 /\ sess[e].port = 2
        /\ sess[c].st = "piping" /\ sess[e].st = "piping"
        /\ sess[c].dialed = sess[c].snap /\ sess[c].snap = masterAddr[1]
        /\ sess[e].dialed = sess[e].snap /\ sess[e].snap = masterAddr[2]
        /\ masterAddr[1] # NilAddr /\ masterAddr[2] # NilAddr
        /\ masterAddr[1] # masterAddr[2]

\* On one port, a session runs on the address of its snapshot although the
\* Elector has published another address since.
C7_MasterMovedSince ==
    \E c \in DOMAIN sess :
        /\ sess[c].st = "piping"
        /\ sess[c].dialed = sess[c].snap
        /\ masterAddr[sess[c].port] # NilAddr
        /\ masterAddr[sess[c].port] # sess[c].snap

C8_Inv ==
    \A c \in DOMAIN sess : sess[c].dials > 0 => sess[c].dialed = sess[c].target
C8_Act ==
    /\ \A c \in DOMAIN sess :
          Started(sess[c])
              => /\ sess'[c].target = sess[c].target
                 /\ sess[c].dials > 0 => sess'[c].dialed = sess[c].dialed
    /\ (\E p \in ConfigPorts : masterAddr'[p] # masterAddr[p]) => sess' = sess

\* C8: the target of a session is the one it was dispatched with: the dial
\* uses it, no later step changes it, and a step of the Elector that changes
\* or clears the published address leaves every session as it was.
C8_TargetFixedAtDispatch == [](C8_Inv) /\ [][C8_Act]_vars

\* An established session on one address, a later one on another: the
\* master changed between the two.
C8_Witness ==
    \E c1, c2 \in DOMAIN sess :
        /\ c1 < c2
        /\ sess[c1].st = "piping" /\ sess[c1].pipe = <<"copy", "copy">>
        /\ sess[c2].st = "piping"
        /\ sess[c1].dialed # sess[c2].dialed

C9_Inv ==
    \A c \in DOMAIN sess :
        sess[c].st = "failed"
            => /\ sess[c].local = "closed" /\ sess[c].remote = "none"
               /\ sess[c].pipe = <<"none", "none">>
               /\ sess[c].dials = 1 /\ sess[c].dialed = sess[c].target
C9_Act ==
    \A c \in DOMAIN sess :
        /\ (sess[c].st = "dispatched" /\ sess'[c].st = "failed")
              => /\ UNCHANGED <<statVars, electVars, masterAddr, mutex, alive>>
                 /\ \A o \in DOMAIN sess : o # c => sess'[o] = sess[o]
        /\ sess[c].st = "failed" => sess'[c] = sess[c]

\* C9: a failed dial closes the client connection of its session and ends
\* the session: one dial, no pipe, no counter touched, the Elector and the
\* other sessions unchanged.
C9_FailedDialAbandonsSession == [](C9_Inv) /\ [][C9_Act]_vars

\* The dial of the first client failed; a second client, accepted after the
\* Elector published another master, is proxied through that master.
C9_Witness ==
    \E c1, c2 \in DOMAIN sess :
        /\ c1 < c2
        /\ sess[c1].st = "failed"
        /\ sess[c2].pipe = <<"copy", "copy">>
        /\ sess[c2].dialed # sess[c1].dialed

C10_Inv == ~alive => fatal \in {"resolve", "bind"}
C10_Act ==
    /\ \A p \in ConfigPorts :
          (pcE[p] = "readerr" /\ pcE'[p] # "readerr")
              => /\ alive'
                 /\ newAddr'[p] = NilAddr
                 /\ IF idx[p] < Len(config.Nodes)
                    THEN pcE'[p] = "dial" /\ idx'[p] = idx[p] + 1 /\ attempt'[p] = attempt[p]
                    ELSE \/ pcE'[p] = "dial" /\ idx'[p] = 1 /\ attempt'[p] = attempt[p] + 1
                         \/ pcE'[p] = "lock" /\ attempt[p] = MaxAttempts
    /\ (\E p \in ConfigPorts : pcE[p] \in {"dial", "read"} /\ pcE'[p] # pcE[p]) => alive'
    /\ (\E c \in DOMAIN sess : sess'[c] # sess[c]) => alive'

\* C10: the process ends only on a failed resolve or bind of a listening
\* port; a probe whose read failed counts its node as not master and the
\* cycle goes on, and no step of a probe, a dial or a pipe ends the process.
C10_OnlyBindIsFatal == [](C10_Inv) /\ [][C10_Act]_vars

\* The process runs although a dial to the master failed, a session has
\* ended, and the read of the running probe has just failed.
C10_Witness ==
    /\ alive
    /\ \E p \in ConfigPorts : pcE[p] = "readerr" /\ pcS[p] = "accept"
    /\ \E c1, c2 \in DOMAIN sess :
          sess[c1].st = "failed" /\ sess[c2].pipe = <<"done", "done">>
\* A probe is under way for port p.
Probing(p) == pcE[p] \in {"dial", "read", "readerr"}

\* C11: every probe terminates and every determination completes: whenever
\* the Elector of a running process is in a probe, it later publishes the
\* result of the determination.
C11_EveryDeterminationCompletes ==
    \A p \in PortNums : Probing(p) ~> (Completed(p) \/ ~alive)

\* The Elector waits in the read of a probe of a candidate that accepted the
\* connection and sends nothing.
C11_Witness ==
    \E p \in ConfigPorts :
        /\ alive /\ pcE[p] = "read"
        /\ behaviour[Node(p)][p] = "silent"

\* Without a silent candidate every determination does complete.
NoSilentNode ==
    \A i \in DOMAIN config.Nodes, p \in ConfigPorts :
        behaviour[config.Nodes[i]][p] # "silent"
C11_CompletesUnlessSilent ==
    \A p \in PortNums : (Probing(p) /\ NoSilentNode) ~> (Completed(p) \/ ~alive)

\* net.ListenTCP has returned the listener of port p.
Bound(p) == pcS[p] \in {"accept", "rlock", "test", "go", "runlock"}

\* C12: the ready notification is sent only after every configured port has
\* been bound, and not at all when the bind of a port has failed.
C12_ReadyAfterEveryBind ==
    /\ ready > 0 => \A p \in ConfigPorts : Bound(p)
    /\ fatal = "bind" => ready = 0

\* The supervisor was told ready, and the process then ended on the failed
\* bind of a port.
C12_Witness ==
    /\ ready = 1
    /\ ~alive /\ fatal = "bind"
    /\ \E p \in ConfigPorts : Bound(p)

\* The result of the determination is a non-empty address that differs from
\* the published one.
ActualChange(p) == newAddr[p] # NilAddr /\ newAddr[p] # masterAddr[p]

C13_Inv ==
    \A p \in ConfigPorts :
        logChanging[p] = IF pcE[p] = "lock" /\ ActualChange(p) THEN 1 ELSE 0
C13_Act ==
    \A p \in ConfigPorts :
        /\ (pcE[p] # "lock" /\ pcE'[p] = "lock") => Probing(p)
        /\ (pcE[p] = "lock" /\ pcE'[p] # "lock")
              => /\ pcE'[p] = "assign"
                 /\ newAddr'[p] = newAddr[p] /\ masterAddr'[p] = masterAddr[p]
        /\ masterAddr'[p] # masterAddr[p]
              => pcE[p] = "assign" /\ masterAddr'[p] = newAddr[p]

\* C13: when a determination ends, followMaster logs one "Changing master"
\* line if its result is a non-empty address that differs from the published
\* one (an empty one included) and none otherwise; no other step logs the
\* line, and the address then published is that result.
C13_ChangingLoggedOncePerChange == [](C13_Inv) /\ [][C13_Act]_vars

\* One port polls the master it has published and logs nothing; the other
\* port's master has moved to another node and the line is logged.
C13_Witness ==
    /\ pcE[1] = "lock" /\ newAddr[1] # NilAddr /\ newAddr[1] = masterAddr[1]
    /\ logChanging[1] = 0
    /\ pcE[2] = "lock" /\ masterAddr[2] # NilAddr /\ ActualChange(2)
    /\ logChanging[2] = 1

\* How the candidate listed at position i answers the probes of port p.
KindAt(p, i) == behaviour[config.Nodes[i]][p]
\* The NOAUTH lines of a step that classified the candidate at position i.
LinesFor(p, i) ==
    [NoLines EXCEPT ![config.Nodes[i]] = IF KindAt(p, i) = "noauth" THEN 1 ELSE 0]

C14_Inv ==
    \A p \in ConfigPorts :
        /\ pcE[p] \notin {"dial", "lock"} => logNoAuth[p] = NoLines
        /\ \A k \in DOMAIN config.Nodes :
              ( /\ Completed(p)
                /\ KindAt(p, k) = "master"
                /\ \A i \in 1..(k - 1) : KindAt(p, i) = "noauth" )
                  => masterAddr[p] = RemoteAddr(config.Nodes[k], p)
C14_Act ==
    \A p \in ConfigPorts :
        /\ (pcE[p] = "read" /\ pcE'[p] \notin {"read", "readerr"})
              => /\ logNoAuth'[p] = LinesFor(p, idx[p])
                 /\ idx'[p] # idx[p] \/ attempt'[p] # attempt[p]
                 /\ KindAt(p, idx[p]) = "noauth"
                       => /\ newAddr'[p] = NilAddr
                          /\ idx[p] < Len(config.Nodes)
                                => /\ pcE'[p] = "dial" /\ idx'[p] = idx[p] + 1
                                   /\ attempt'[p] = attempt[p]
        /\ (logNoAuth'[p] # logNoAuth[p] /\ logNoAuth'[p] # NoLines)
              => pcE[p] = "read"

\* C14: with stable replies, the probe of a candidate whose reply holds
\* -NOAUTH and not the master marker logs one warning naming that candidate,
\* returns no address and goes on with the next candidate, so that a master
\* listed after NOAUTH candidates is the one elected; no other step logs the
\* warning, and a candidate is not read twice in a cycle.
C14_NoAuthWarnsAndGoesOn == [](C14_Inv) /\ [][C14_Act]_vars

\* The master listed second is published, and the cycle of a later poll has
\* just logged the warning for the candidate listed first.
C14_Witness ==
    \E p \in ConfigPorts :
        /\ Len(config.Nodes) = 2
        /\ KindAt(p, 1) = "noauth" /\ KindAt(p, 2) = "master"
        /\ pcE[p] = "dial" /\ idx[p] = 2
        /\ logNoAuth[p][config.Nodes[1]] = 1
        /\ masterAddr[p] = RemoteAddr(config.Nodes[2], p)

\* Positions of the candidates that are masters reached only with a connect
\* timeout of two seconds or more.
SlowIdx(p) == {i \in DOMAIN config.Nodes : KindAt(p, i) = "slow"}
FirstSlow(p) ==
    config.Nodes[CHOOSE i \in SlowIdx(p) : \A j \in SlowIdx(p) : i <= j]

\* The position followMaster moves to from each position outside the
\* attempt loop.
AfterLoop(pc) ==
    CASE pc = "start" -> "dial"
      [] pc = "lock" -> "assign"
      [] pc = "assign" -> "unlock"
      [] pc = "unlock" -> "sleep"
      [] pc = "sleep" -> "dial"
      [] OTHER -> pc

C15_Inv ==
    \A p \in ConfigPorts :
        /\ Probing(p)
              => /\ attempt[p] \in 1..MaxAttempts
                 /\ ProbeTimeout(p) = attempt[p]
                 /\ newAddr[p] = NilAddr /\ confirmed[p] = NilAddr
        /\ (Completed(p) /\ MasterIdx(p) = {} /\ SlowIdx(p) # {})
              => masterAddr[p] = RemoteAddr(FirstSlow(p), p)
C15_Act ==
    \A p \in ConfigPorts :
        /\ attempt'[p] # attempt[p]
              => \/ pcE[p] \in {"start", "sleep"} /\ pcE'[p] = "dial" /\ attempt'[p] = 1
                 \/ /\ Probing(p) /\ pcE'[p] = "dial"
                    /\ idx[p] = Len(config.Nodes) /\ idx'[p] = 1
                    /\ attempt'[p] = attempt[p] + 1
                    /\ ProbeTimeout(p)' > ProbeTimeout(p)
                 \/ /\ Probing(p) /\ pcE'[p] = "lock"
                    /\ attempt'[p] = 0
                    /\ newAddr'[p] # NilAddr \/ attempt[p] = MaxAttempts
        /\ (Probing(p) /\ newAddr'[p] # NilAddr) => pcE'[p] = "lock"
        /\ (Probing(p) /\ pcE'[p] # pcE[p]) => Probing(p)' \/ pcE'[p] = "lock"
        /\ (~Probing(p) /\ pcE'[p] # pcE[p] /\ pcE[p] # "off")
              => pcE'[p] = AfterLoop(pcE[p])
        /\ masterAddr'[p] # masterAddr[p] => pcE[p] = "assign"
        /\ (pcE[p] = "assign" /\ pcE'[p] # "assign") => masterAddr'[p] = newAddr[p]

\* C15: a determination runs the cycles 1, 2, 3 in order, cycle k with a
\* connect timeout of k seconds; cycle k+1 starts only when cycle k has
\* probed every candidate and found no master, the loop is left at the first
\* cycle that yields a master or after cycle 3, and the address is published
\* once, by the assignment that follows the loop. A master that needs more
\* than one second to connect is found by the second cycle.
C15_UpToThreeCycles == [](C15_Inv) /\ [][C15_Act]_vars

\* The only master connects too slowly for the first cycle: the second
\* cycle found it and its address is published.
C15_Witness ==
    \E p \in ConfigPorts :
        /\ MasterIdx(p) = {} /\ SlowIdx(p) # {}
        /\ pcE[p] = "sleep"
        /\ masterAddr[p] = RemoteAddr(FirstSlow(p), p)
        /\ Len(config.Nodes) = 2 /\ KindAt(p, 2) = "slow"

\* The Elector of port p waits for, or handles, the reply of a candidate.
Reading(p) == pcE[p] \in {"read", "readerr"}

C16_Inv ==
    \A p \in ConfigPorts :
        Probing(p) => idx[p] \in DOMAIN config.Nodes /\ confirmed[p] = NilAddr
C16_Act ==
    \A p \in ConfigPorts :
        /\ idx'[p] # idx[p]
              => \/ idx'[p] = idx[p] + 1 /\ attempt'[p] = attempt[p] /\ pcE'[p] = "dial"
                 \/ idx'[p] = 1 /\ attempt'[p] # attempt[p]
                 \/ idx'[p] = 0 /\ pcE'[p] = "lock"
        /\ (~Reading(p) /\ Reading(p)')
              => /\ pcE[p] = "dial" /\ pcE'[p] = "read"
                 /\ idx'[p] = idx[p] /\ attempt'[p] = attempt[p]
        /\ (Reading(p) /\ ~Reading(p)')
              => IF confirmed'[p] # NilAddr
                 THEN /\ pcE'[p] = "lock"
                      /\ newAddr'[p] = RemoteAddr(config.Nodes[idx[p]], p)
                      /\ confirmed'[p] = newAddr'[p]
                 ELSE /\ newAddr'[p] = NilAddr
                      /\ IF idx[p] < Len(config.Nodes)
                         THEN pcE'[p] = "dial" /\ idx'[p] = idx[p] + 1
                         ELSE idx'[p] \in {0, 1}

\* C16: a cycle dials the candidates in configured order, from the first,
\* each once; a candidate whose connect fails, or whose reply lacks the
\* master marker, is followed by the next candidate, and the reply with the
\* marker ends the cycle with that candidate's address, so that no candidate
\* listed after it is dialled in that cycle.
C16_InOrderUntilFirstMaster == [](C16_Inv) /\ [][C16_Act]_vars

\* On one port the second candidate was confirmed after the first was passed
\* over; on the other port the cycle is at its second candidate.
C16_Witness ==
    /\ pcE[1] = "lock" /\ confirmed[1] = RemoteAddr(config.Nodes[2], 1)
    /\ newAddr[1] = confirmed[1]
    /\ pcE[2] = "read" /\ idx[2] = 2

\* The steps of the accept loop of port p between RLock and RUnlock.
ServeSection(p) == ServeTest(p) \/ ServeGo(p) \/ ServeRUnlock(p)
\* A session whose proxy is still in its dial.
Dialling(s) == s.st = "dispatched"
\* A session whose pipes have not both finished.
Copying(s) == s.st = "piping" /\ s.pipe # <<"done", "done">>

\* C17: whatever the sessions are doing, the accept loop of a running port
\* can take its next step: it waits only for a client in AcceptTCP and for
\* the Elector's assignment in RLock, never for the dial or the pipes of a
\* session it has dispatched.
C17_AcceptLoopNeverWaitsForSessions ==
    \A p \in ConfigPorts :
        alive =>
            /\ pcS[p] \in {"test", "go", "runlock"} => ENABLED ServeSection(p)
            /\ (pcS[p] = "rlock" /\ ~mutex[p].w) => ENABLED ServeRLock(p)
            /\ (pcS[p] = "accept" /\ Len(sess) < MaxConns) => ENABLED ServeAccept(p)

\* The dial of the first session has not returned, and the accept loop has
\* dispatched the next connection, whose pipes copy, and is back in
\* AcceptTCP.
C17_Witness ==
    \E p \in ConfigPorts, c1, c2 \in DOMAIN sess :
        /\ c1 < c2 /\ sess[c1].port = p /\ sess[c2].port = p
        /\ Dialling(sess[c1])
        /\ Copying(sess[c2]) /\ sess[c2].pipe = <<"copy", "copy">>
        /\ pcS[p] = "accept"

\* io.Copy of pipe d of connection c has returned.
CopyEnded(c, d) ==
    c \in DOMAIN sess /\ sess[c].pipe[d] \in {"closeR", "dec", "done"}
\* Pipe d of connection c has returned.
PipeFinished(c, d) == c \in DOMAIN sess /\ sess[c].pipe[d] = "done"

\* C18: in every session, once the copy of one pipe has ended the paired
\* pipe finishes too, without any further action of the client or the
\* master.
C18_PairedPipeEnds ==
    \A c \in 1..MaxConns, d \in Dirs : CopyEnded(c, d) ~> PipeFinished(c, 3 - d)

\* The copy from the client has ended and closed the connection to the
\* master, on which the paired pipe is still in its copy.
C18_Witness ==
    \E c \in DOMAIN sess :
        /\ sess[c].pipe = <<"closeR", "copy">>
        /\ sess[c].remote = "closed" /\ sess[c].local = "open"

\* The positions at which followMaster holds the write lock, and those at
\* which the accept loop holds the read lock.
InWriteSection(p) == pcE[p] \in {"assign", "unlock"}
InReadSection(p) == pcS[p] \in {"test", "go", "runlock"}
\* The steps of followMaster between Lock and Unlock.
WriteSection(p) == ElectorAssign(p) \/ ElectorUnlock(p)

\* C19: the write lock of a port is held exactly while its Elector is at
\* the assignment or at Unlock, and the read lock exactly while its accept
\* loop is between RLock and RUnlock, by that one reader; the holder's next
\* step is always enabled, so whoever waits for the lock waits for a holder
\* that can release it.
C19_LockHeldOnlyAcrossShortSections ==
    \A p \in ConfigPorts :
        /\ mutex[p].w <=> InWriteSection(p)
        /\ mutex[p].r = IF InReadSection(p) THEN 1 ELSE 0
        /\ ~(InWriteSection(p) /\ InReadSection(p))
        /\ alive =>
              /\ InWriteSection(p) => ENABLED WriteSection(p)
              /\ InReadSection(p) => ENABLED ServeSection(p)
              /\ pcE[p] = "lock" => ENABLED ElectorLock(p) \/ InReadSection(p)
              /\ pcS[p] = "rlock" => ENABLED ServeRLock(p) \/ InWriteSection(p)

\* The Elector waits in Lock for the accept loop, which holds the read lock
\* for the connection it is dispatching while an earlier session copies.
C19_Witness ==
    \E p \in ConfigPorts, c \in DOMAIN sess :
        /\ pcE[p] = "lock" /\ pcS[p] = "go"
        /\ mutex[p] = [w |-> FALSE, r |-> 1]
        /\ Copying(sess[c]) /\ c # cur[p]

\* The pipes of all sessions that have started and not finished.
TotalRunning == RunningExcept(0, Len(sess))
\* The dispatched sessions whose dial succeeded.
Established == {c \in DOMAIN sess : sess[c].st = "piping"}

\* C20: in every reachable state pipesActive is the number of pipes, of all
\* sessions, that have incremented it and not yet decremented it; a pipe
\* exists only in a session whose dial succeeded, so the counter has not
\* wrapped and is at most twice the number of those sessions.
C20_PipesActiveCountsRunningPipes ==
    /\ pipesActive = <<0, TotalRunning>>
    /\ TotalRunning <= 2 * Cardinality(Established)
    /\ Cardinality(Established) <= connectionsProxied
    /\ \A c \in DOMAIN sess :
          c \notin Established => sess[c].pipe = <<"none", "none">>

\* Three pipes of two sessions run, one of them past its copy, and one has
\* finished.
C20_Witness ==
    \E c1, c2 \in DOMAIN sess :
        /\ sess[c1].pipe = <<"done", "dec">>
        /\ sess[c2].pipe = <<"copy", "copy">>
        /\ pipesActive = U32(3)
====
